---------------------------- MODULE Spec2Model ----------------------------
(***************************************************************************)
(* A model of bctl/common.py: the task supervisor wait_and_reraise, the    *)
(* persisted state store (_load_state, write_state, _read_dict_from_file)  *)
(* and the layered configuration (load_config).                            *)
(*                                                                         *)
(* Three specifications share the module, one per component:               *)
(*   SpecSup    the supervisor and the tasks it waits for                  *)
(*   SpecState  the state file, the clock, loads and writes                *)
(*   SpecConf   the merge of the defaults with an override                 *)
(* Each leaves the other components' variables at their initial values.    *)
(***************************************************************************)
EXTENDS Integers, Sequences, FiniteSets, TLC

VARIABLES
    \* ---- task supervisor (wait_and_reraise) ----
    futures,       \* the task group passed to wait_and_reraise
    tstate,        \* each task: "pending" | "ok" | "failed" | "cancelled"
    pc,            \* the supervisor: "start" | "waiting" | "done"
    supCancelled,  \* the supervisor's own task has a cancellation to deliver
    timedOut,      \* the 5 second timer of asyncio.wait has fired
    cancelReq,     \* tasks on which the supervisor has called task.cancel()
    done,          \* local `done` of wait_and_reraise (set at the wait's return)
    pending,       \* local `tasks_to_cancel` as returned by asyncio.wait
    waitEnd,       \* how the wait ended: "none" | "returned" | "cancelled" | "error"
    result,        \* what the call did: [kind, exc, of]
    endState,      \* history: tstate at the moment the supervisor finished
    \* ---- persisted state store ----
    now,           \* unix_time_now()
    file,          \* the state file: [mode, text]
    state,         \* conf['state'] (NoneState until loaded)
    loadErr,       \* exception the _load_state just made raised ("none": it returned)
    fresh,         \* history: _load_state has just been called (no step since)
    wpc,           \* write_state: "idle" | "opened"
    wdata,         \* local `data` of the write_state in progress
    lastWrite,     \* history: clock and brightness at the last write_state call
    wrote,         \* history: that write_state has completed, none begun since
    \* ---- layered configuration ----
    defaults,      \* the literal `conf` that load_config starts from
    cfgFile,       \* the override file at _conf_path(): [mode, text]
    loadState,     \* argument load_state of load_config
    conf,          \* the configuration load_config returned (Unset before)
    confErr        \* exception load_config raised ("none" if it returned)

supVars   == <<futures, tstate, pc, supCancelled, timedOut, cancelReq, done,
               pending, waitEnd, result, endState>>
stateVars == <<now, file, state, loadErr, fresh, wpc, wdata, lastWrite, wrote>>
confVars  == <<defaults, cfgFile, loadState, conf, confErr>>
vars      == <<supVars, stateVars, confVars>>

-----------------------------------------------------------------------------
(* Bounds *)
NTasks == 3
MaxTime == 62

(* Program constants *)
STATE_VER == 1
TIME_DIFF_DELTA_THRESHOLD_S == 60

-----------------------------------------------------------------------------
(***************************************************************************)
(*                          TASK SUPERVISOR                                *)
(***************************************************************************)
Tasks == 1..NTasks

NoResult      == [kind |-> "none",   exc |-> "",                  of |-> 0]
Returned      == [kind |-> "return", exc |-> "",                  of |-> 0]
TaskError(t)  == [kind |-> "raise",  exc |-> "TaskError",         of |-> t]
CancelledErr  == [kind |-> "raise",  exc |-> "CancelledError",    of |-> 0]
UnboundLocal  == [kind |-> "raise",  exc |-> "UnboundLocalError", of |-> 0]

\* Task.done()
IsDone(t) == tstate[t] # "pending"

\* variant: return_when=ALL_COMPLETED
ReleaseWhenAllCompleted == \A t \in futures : IsDone(t)

\* asyncio.wait(..., return_when=FIRST_EXCEPTION): a finishing future releases
\* the waiter when every future is done, or when it finished with an exception
\* and was not cancelled.
CompletionRelease ==
    \/ \A t \in futures : IsDone(t)
    \/ \E t \in futures : tstate[t] = "failed"

\* asyncio.wait(..., timeout=5): the timer releases the waiter otherwise
WakeCondition == timedOut \/ CompletionRelease

\* variant: only the unfinished tasks are cancelled
CancelOnlyPending == {t \in futures : ~IsDone(t)}

\* except asyncio.CancelledError: tasks_to_cancel = futures
TasksToCancelOnCancel == futures

\* variant: every task is cancelled
CancelEveryTask(pend) == futures

\* done, tasks_to_cancel = await asyncio.wait(...): the second set of the pair
TasksToCancelOnReturn(pend) == pend

\* variant: the loop raises nothing
SwallowAll(order) == Returned

\* The loop `for task in done: if exc := task.exception(): raise exc`, run
\* over the sequence `order` in which the set `done` is iterated.
\* task.exception() is the exception of a failed task, None for a successful
\* one, and raises CancelledError for a cancelled one.
RECURSIVE ReraiseLoop(_)
ReraiseLoop(order) ==
    IF order = <<>> THEN Returned
    ELSE LET t == Head(order) IN
         CASE tstate[t] = "cancelled" -> CancelledErr
           [] tstate[t] = "failed"    -> TaskError(t)
           [] OTHER                   -> ReraiseLoop(Tail(order))

\* the orders in which a set can be iterated
Orders(S) ==
    {o \in [1..Cardinality(S) -> S] : \A i, j \in 1..Cardinality(S) : i # j => o[i] # o[j]}

SupInit ==
    /\ futures \in SUBSET Tasks
    /\ tstate = [t \in Tasks |-> "pending"]
    /\ pc = "start"
    /\ supCancelled = FALSE
    /\ timedOut = FALSE
    /\ cancelReq = {}
    /\ done = {}
    /\ pending = {}
    /\ waitEnd = "none"
    /\ result = NoResult
    /\ endState = [t \in Tasks |-> "pending"]

\* A task finishes on its own: with a result, with an exception, or cancelled
\* (by the supervisor's request or by anybody else holding the handle).
TaskSucceeds(t) ==
    /\ tstate[t] = "pending"
    /\ tstate' = [tstate EXCEPT ![t] = "ok"]
    /\ UNCHANGED <<futures, pc, supCancelled, timedOut, cancelReq, done, pending,
                   waitEnd, result, endState>>
    /\ UNCHANGED <<stateVars, confVars>>

TaskFails(t) ==
    /\ tstate[t] = "pending"
    /\ tstate' = [tstate EXCEPT ![t] = "failed"]
    /\ UNCHANGED <<futures, pc, supCancelled, timedOut, cancelReq, done, pending,
                   waitEnd, result, endState>>
    /\ UNCHANGED <<stateVars, confVars>>

TaskCancelled(t) ==
    /\ tstate[t] = "pending"
    /\ tstate' = [tstate EXCEPT ![t] = "cancelled"]
    /\ UNCHANGED <<futures, pc, supCancelled, timedOut, cancelReq, done, pending,
                   waitEnd, result, endState>>
    /\ UNCHANGED <<stateVars, confVars>>

\* wait_and_reraise is entered and reaches `await asyncio.wait(...)`.
CallWait ==
    /\ pc = "start"
    /\ futures # {}
    /\ pc' = "waiting"
    /\ UNCHANGED <<futures, tstate, supCancelled, timedOut, cancelReq, done, pending,
                   waitEnd, result, endState>>
    /\ UNCHANGED <<stateVars, confVars>>

\* asyncio.wait raises ValueError for an empty set; the except clause does not
\* match, and the finally clause reads the unbound tasks_to_cancel.
CallEmpty ==
    /\ pc = "start"
    /\ futures = {}
    /\ pc' = "done"
    /\ waitEnd' = "error"
    /\ result' = UnboundLocal
    /\ endState' = tstate
    /\ UNCHANGED <<futures, tstate, supCancelled, timedOut, cancelReq, done, pending>>
    /\ UNCHANGED <<stateVars, confVars>>

\* the 5 seconds elapse with the waiter not yet released: the timer releases it
Timeout ==
    /\ pc = "waiting"
    /\ ~timedOut
    /\ ~CompletionRelease
    /\ timedOut' = TRUE
    /\ UNCHANGED <<futures, tstate, pc, supCancelled, cancelReq, done, pending,
                   waitEnd, result, endState>>
    /\ UNCHANGED <<stateVars, confVars>>

\* the caller of wait_and_reraise cancels it while it waits
CancelSupervisor ==
    /\ pc = "waiting"
    /\ ~supCancelled
    /\ supCancelled' = TRUE
    /\ UNCHANGED <<futures, tstate, pc, timedOut, cancelReq, done, pending,
                   waitEnd, result, endState>>
    /\ UNCHANGED <<stateVars, confVars>>

\* The wait returns (done, pending); finally: every pending task is cancelled;
\* then the loop over done re-raises.  No suspension point in between.
WaitReturn ==
    /\ pc = "waiting"
    /\ ~supCancelled
    /\ WakeCondition
    /\ done' = {t \in futures : IsDone(t)}
    /\ pending' = {t \in futures : ~IsDone(t)}
    /\ cancelReq' = cancelReq \cup TasksToCancelOnReturn(pending')
    /\ \E order \in Orders(done') : result' = ReraiseLoop(order)
    /\ waitEnd' = "returned"
    /\ endState' = tstate
    /\ pc' = "done"
    /\ UNCHANGED <<futures, tstate, supCancelled, timedOut>>
    /\ UNCHANGED <<stateVars, confVars>>

\* CancelledError is thrown into the await: except: tasks_to_cancel = futures;
\* raise; finally: every task of futures is cancelled.
WaitCancelled ==
    /\ pc = "waiting"
    /\ supCancelled
    /\ cancelReq' = cancelReq \cup TasksToCancelOnCancel
    /\ result' = CancelledErr
    /\ waitEnd' = "cancelled"
    /\ endState' = tstate
    /\ pc' = "done"
    /\ UNCHANGED <<futures, tstate, supCancelled, timedOut, done, pending>>
    /\ UNCHANGED <<stateVars, confVars>>

SupNext ==
    \/ \E t \in Tasks : TaskSucceeds(t)
    \/ \E t \in Tasks : TaskFails(t)
    \/ \E t \in Tasks : TaskCancelled(t)
    \/ CallWait
    \/ CallEmpty
    \/ Timeout
    \/ CancelSupervisor
    \/ WaitReturn
    \/ WaitCancelled

-----------------------------------------------------------------------------
(***************************************************************************)
(*                        PERSISTED STATE STORE                            *)
(*                                                                         *)
(* A JSON value is a tagged pair: <<"int", n>>, <<"str", 0>> (some text),  *)
(* <<"null", 0>>.  The text of a file is a sequence of chunks; a chunk is  *)
(* the text of one JSON object (its members in the order written), of a    *)
(* JSON array, or junk.  A parsed value is a dict (a function from keys)   *)
(* or a list.                                                              *)
(***************************************************************************)
IntVal(n)  == <<"int", n>>
StrVal  == <<"str", 0>>
NullVal == <<"null", 0>>

ObjectChunk(pairs) == [kind |-> "object", pairs |-> pairs]
ArrayChunk         == [kind |-> "array",  pairs |-> <<>>]
JunkChunk          == [kind |-> "junk",   pairs |-> <<>>]

EmptyMap   == [k \in {} |-> NullVal]
Dict(m)    == [type |-> "dict", map |-> m]
ListValue  == [type |-> "list", map |-> EmptyMap]

\* EMPTY_STATE
EMPTY_STATE ==
    [k \in {"timestamp", "ver", "last_set_brightness"} |->
        CASE k = "timestamp" -> IntVal(0)
          [] k = "ver"       -> IntVal(-1)
          [] OTHER           -> IntVal(-1)]

\* dict.get(key, default)
Get(m, key, default) == IF key \in DOMAIN m THEN m[key] ELSE default

\* json.load of an object's text: a later member replaces an earlier one of
\* the same key.
ParseObject(pairs) ==
    [k \in {pairs[i][1] : i \in DOMAIN pairs} |->
        LET last == CHOOSE i \in DOMAIN pairs :
                        /\ pairs[i][1] = k
                        /\ \A j \in DOMAIN pairs : pairs[j][1] = k => j <= i
        IN  pairs[last][2]]

\* json.load(f): ok is FALSE where it raises (no document, junk, extra data)
JsonLoad(text) ==
    IF Len(text) = 1 /\ text[1].kind = "object"
        THEN [ok |-> TRUE, value |-> Dict(ParseObject(text[1].pairs))]
    ELSE IF Len(text) = 1 /\ text[1].kind = "array"
        THEN [ok |-> TRUE, value |-> ListValue]
    ELSE [ok |-> FALSE, value |-> Dict(EmptyMap)]

\* json.dumps(data, sort_keys=True, ...): the members sorted by key
SortedKeys == <<"last_set_brightness", "timestamp", "ver">>

JsonDumps(data) ==
    ObjectChunk([i \in 1..Len(SortedKeys) |-> <<SortedKeys[i], data[SortedKeys[i]]>>])

\* _read_dict_from_file
ReadDictFromFile(f) ==
    IF f.mode # "readable" THEN Dict(EmptyMap)
    ELSE LET r == JsonLoad(f.text) IN
         IF r.ok THEN r.value ELSE Dict(EmptyMap)

\* variant: `<` for `<=`
StrictlyFresh(t, v, clock) ==
    clock - t[2] < TIME_DIFF_DELTA_THRESHOLD_S /\ v = IntVal(STATE_VER)

\* unix_time_now() - t <= TIME_DIFF_DELTA_THRESHOLD_S and v == STATE_VER
IsValidState(t, v, clock) ==
    clock - t[2] <= TIME_DIFF_DELTA_THRESHOLD_S /\ v = IntVal(STATE_VER)

\* _load_state: the value returned, or the exception raised
LoadState(f, clock) ==
    LET s == ReadDictFromFile(f) IN
    IF s.type # "dict"
        THEN [err |-> "AttributeError", value |-> EmptyMap]   \* s.get
    ELSE LET t == Get(s.map, "timestamp", IntVal(0))
             v == Get(s.map, "ver", IntVal(-1))
         IN  IF t[1] # "int"
                 THEN [err |-> "TypeError", value |-> EmptyMap]   \* int - str
             ELSE IF IsValidState(t, v, clock)
                 THEN [err |-> "none", value |-> s.map]
             ELSE [err |-> "none", value |-> EMPTY_STATE]

\* data of write_state
WriteData(st, clock) ==
    [k \in {"timestamp", "ver", "last_set_brightness"} |->
        CASE k = "timestamp" -> IntVal(clock)
          [] k = "ver"       -> IntVal(STATE_VER)
          [] OTHER           -> Get(st, "last_set_brightness", NullVal)]

\* variant: mode='a'
OpenForAppend(text) == text

\* aiof.open(statef, mode='w'): the file is created or truncated
OpenForWrite(text) == <<>>

\* the files the daemon may find at start
InitTimestamps == {<<>>, <<<<"timestamp", IntVal(0)>>>>, <<<<"timestamp", IntVal(2)>>>>,
                   <<<<"timestamp", StrVal>>>>}
InitVers       == {<<>>, <<<<"ver", IntVal(STATE_VER)>>>>, <<<<"ver", IntVal(STATE_VER - 1)>>>>,
                   <<<<"ver", StrVal>>>>}
InitLsbs       == {<<>>, <<<<"last_set_brightness", IntVal(40)>>>>}

InitTexts ==
    {<<>>, <<JunkChunk>>, <<ArrayChunk>>,
     <<ObjectChunk(<<<<"ver", IntVal(0)>>, <<"timestamp", IntVal(0)>>, <<"ver", IntVal(STATE_VER)>>>>)>>}
    \cup {<<ObjectChunk(a \o b \o c)>> : a \in InitTimestamps, b \in InitVers, c \in InitLsbs}

InitFiles ==
    {[mode |-> "absent", text |-> <<>>], [mode |-> "unreadable", text |-> <<>>]}
    \cup {[mode |-> "readable", text |-> x] : x \in InitTexts}

Brightness == {10, 20}

NoneState == [isNone |-> TRUE, map |-> EmptyMap]
SomeState(m) == [isNone |-> FALSE, map |-> m]

NoWrite == [time |-> 0, lsb |-> NullVal]

StateInit ==
    /\ now = 0
    /\ file \in InitFiles
    /\ state = NoneState
    /\ loadErr = "none"
    /\ fresh = FALSE
    /\ wpc = "idle"
    /\ wdata = EMPTY_STATE
    /\ lastWrite = NoWrite
    /\ wrote = FALSE

\* the instants at which the model looks at the clock
ClockPoints == (0..2) \cup ((TIME_DIFF_DELTA_THRESHOLD_S - 1)..MaxTime)

\* time passes
Tick(t) ==
    /\ t > now
    /\ now' = t
    /\ fresh' = FALSE
    /\ loadErr' = "none"
    /\ UNCHANGED <<file, state, wpc, wdata, lastWrite, wrote>>
    /\ UNCHANGED <<supVars, confVars>>

\* conf['state'] = _load_state(conf['state_f_path'])
LoadStateCall ==
    /\ LET r == LoadState(file, now) IN
        /\ loadErr' = r.err
        /\ state' = IF r.err = "none" THEN SomeState(r.value) ELSE state
    /\ fresh' = TRUE
    /\ UNCHANGED <<now, file, wpc, wdata, lastWrite, wrote>>
    /\ UNCHANGED <<supVars, confVars>>

\* the domain logic records the brightness it has set
SetBrightness(b) ==
    /\ ~state.isNone
    /\ state' = SomeState([k \in DOMAIN state.map \cup {"last_set_brightness"} |->
                              IF k = "last_set_brightness" THEN IntVal(b) ELSE state.map[k]])
    /\ fresh' = FALSE
    /\ loadErr' = "none"
    /\ UNCHANGED <<now, file, wpc, wdata, lastWrite, wrote>>
    /\ UNCHANGED <<supVars, confVars>>

\* write_state up to `async with aiof.open(statef, mode='w')`: data is built
\* and serialized, the file is created or truncated.  A path that is no
\* accessible regular file cannot be opened (IOError).
WriteOpen ==
    /\ wpc = "idle"
    /\ ~state.isNone
    /\ file.mode # "unreadable"
    /\ wdata' = WriteData(state.map, now)
    /\ file' = [mode |-> "readable", text |-> OpenForWrite(file.text)]
    /\ wrote' = FALSE
    /\ lastWrite' = [time |-> now, lsb |-> Get(state.map, "last_set_brightness", NullVal)]
    /\ wpc' = "opened"
    /\ fresh' = FALSE
    /\ loadErr' = "none"
    /\ UNCHANGED <<now, state>>
    /\ UNCHANGED <<supVars, confVars>>

\* await f.write(payload), and the file is closed
WriteFinish ==
    /\ wpc = "opened"
    /\ file' = [file EXCEPT !.text = Append(file.text, JsonDumps(wdata))]
    /\ wdata' = EMPTY_STATE
    /\ wrote' = TRUE
    /\ wpc' = "idle"
    /\ fresh' = FALSE
    /\ loadErr' = "none"
    /\ UNCHANGED <<now, state, lastWrite>>
    /\ UNCHANGED <<supVars, confVars>>

\* the write fails with an IOError, leaving a part of the payload
WriteFails ==
    /\ wpc = "opened"
    /\ file' = [file EXCEPT !.text = Append(file.text, JunkChunk)]
    /\ wdata' = EMPTY_STATE
    /\ wpc' = "idle"
    /\ fresh' = FALSE
    /\ loadErr' = "none"
    /\ UNCHANGED <<now, state, lastWrite, wrote>>
    /\ UNCHANGED <<supVars, confVars>>

StateNext ==
    \/ \E t \in ClockPoints : Tick(t)
    \/ LoadStateCall
    \/ \E b \in Brightness : SetBrightness(b)
    \/ WriteOpen
    \/ WriteFinish
    \/ WriteFails

-----------------------------------------------------------------------------
(***************************************************************************)
(*                       LAYERED CONFIGURATION                             *)
(*                                                                         *)
(* A configuration value is a tagged pair: <<"leaf", text>> for a scalar   *)
(* (None is Leaf("None")), <<"map", f>> for a mapping, <<"list", s>> for a *)
(* sequence.                                                               *)
(***************************************************************************)
Leaf(x)    == <<"leaf", x>>
MapVal(f)  == <<"map", f>>
ListVal(q) == <<"list", q>>
NoneVal    == Leaf("None")
Unset      == <<"unset", 0>>

IsMap(v)  == v[1] = "map"
IsList(v) == v[1] = "list"

\* a function given by its pairs <<key, value>> (keys distinct)
MapOf(pairs) ==
    [k \in {pairs[i][1] : i \in DOMAIN pairs} |->
        pairs[CHOOSE i \in DOMAIN pairs : pairs[i][1] = k][2]]

\* the keys of a set, in the order a dict yields them
RECURSIVE KeySeq(_)
KeySeq(S) ==
    IF S = {} THEN <<>>
    ELSE LET k == CHOOSE x \in S : TRUE IN <<k>> \o KeySeq(S \ {k})

\* pydash iterator(source): the keys of a mapping, the indices 0.. of a list
IterKeys(src) ==
    IF IsMap(src) THEN KeySeq(DOMAIN src[2])
    ELSE [i \in 1..Len(src[2]) |-> i - 1]

SrcItem(src, key) == IF IsMap(src) THEN src[2][key] ELSE src[2][key + 1]

\* pydash base_get(obj, key, default=None)
BaseGet(o, key) ==
    IF IsMap(o) THEN (IF key \in DOMAIN o[2] THEN o[2][key] ELSE NoneVal)
    ELSE (IF key < Len(o[2]) THEN o[2][key + 1] ELSE NoneVal)

\* pydash base_set(obj, key, value): a mapping gets the key; a list gets the
\* element replaced when the index exists, and is padded with None and
\* appended to otherwise.
BaseSet(o, key, val) ==
    IF IsMap(o)
        THEN MapVal([k \in DOMAIN o[2] \cup {key} |-> IF k = key THEN val ELSE o[2][k]])
    ELSE IF key < Len(o[2])
        THEN ListVal([o[2] EXCEPT ![key + 1] = val])
    ELSE ListVal(Append([i \in 1..key |-> IF i <= Len(o[2]) THEN o[2][i] ELSE NoneVal],
                        val))

\* pydash _merge_with(obj, source): for key, src_value in iterator(source):
\*   both lists or both dicts: recurse; otherwise take src_value; set it.
RECURSIVE MergeItems(_, _, _)
MergeItems(o, src, keys) ==
    IF keys = <<>> THEN o
    ELSE LET key == Head(keys)
             sv  == SrcItem(src, key)
             ov  == BaseGet(o, key)
             res == IF (IsList(sv) /\ IsList(ov)) \/ (IsMap(sv) /\ IsMap(ov))
                        THEN MergeItems(ov, sv, IterKeys(sv))
                        ELSE sv
         IN  MergeItems(BaseSet(o, key, res), src, Tail(keys))

\* py_.merge(obj, source) of pydash, the library load_config calls
PyMerge(o, src) == MergeItems(o, src, IterKeys(src))

\* variant: dict.update(source), a shallow merge
ShallowUpdate(o, src) ==
    MapVal([k \in DOMAIN o[2] \cup DOMAIN src[2] |->
               IF k \in DOMAIN src[2] THEN src[2][k] ELSE o[2][k]])

\* the literal of load_config, abridged: one scalar key stands for the
\* scalar keys, and notify keeps two of its keys
DefaultConf ==
    MapVal(MapOf(<<
        <<"log_lvl", Leaf("INFO")>>,
        <<"ddcutil_svcp_flags", ListVal(<<Leaf("--skip-ddc-checks")>>)>>,
        <<"ddcutil_gvcp_flags", ListVal(<<>>)>>,
        <<"notify", MapVal(MapOf(<< <<"enabled", Leaf("True")>>,
                                    <<"timeout_ms", Leaf("4000")>> >>))>>,
        <<"sim", NoneVal>>,
        <<"state_f_path", Leaf("/tmp/.bctld.state")>>,
        <<"state", NoneVal>> >>))

\* a second table of defaults, with a list of two elements and a list of
\* containers, to exercise the merge by index
TestConf ==
    MapVal(MapOf(<<
        <<"log_lvl", Leaf("INFO")>>,
        <<"ddcutil_svcp_flags", ListVal(<<Leaf("a"), Leaf("b")>>)>>,
        <<"ddcutil_gvcp_flags",
            ListVal(<<MapVal(MapOf(<< <<"enabled", Leaf("True")>> >>)), Leaf("z")>>)>>,
        <<"notify", MapVal(MapOf(<< <<"enabled", Leaf("True")>>,
                                    <<"timeout_ms", Leaf("4000")>> >>))>>,
        <<"sim", NoneVal>>,
        <<"state_f_path", Leaf("/tmp/.bctld.state")>>,
        <<"state", NoneVal>> >>))

\* the values an override file may give each key (<<>>: the key is absent)
OvrLogLvl == {<<>>, <<<<"log_lvl", Leaf("DEBUG")>>>>, <<<<"log_lvl", ListVal(<<Leaf("x")>>)>>>>}
OvrSvcp   == {<<>>} \cup
             {<<<<"ddcutil_svcp_flags", v>>>> :
                 v \in {ListVal(<<>>), ListVal(<<Leaf("x")>>),
                        ListVal(<<Leaf("x"), Leaf("y"), Leaf("w")>>), Leaf("s")}}
OvrGvcp   == {<<>>} \cup
             {<<<<"ddcutil_gvcp_flags", v>>>> :
                 v \in {ListVal(<<Leaf("x")>>),
                        ListVal(<<MapVal(MapOf(<< <<"extra", Leaf("1")>> >>))>>)}}
OvrNotify == {<<>>} \cup
             {<<<<"notify", v>>>> :
                 v \in {MapVal(MapOf(<< <<"enabled", Leaf("False")>> >>)),
                        MapVal(MapOf(<< <<"extra", Leaf("1")>> >>)),
                        Leaf("off")}}
OvrSim    == {<<>>, <<<<"sim", MapVal(MapOf(<< <<"ndisplays", Leaf("2")>> >>))>>>>}
OvrExtra  == {<<>>, <<<<"unknown_key", Leaf("1")>>>>}

OverridePairs ==
    {a \o b \o c \o d \o e \o f :
        a \in OvrLogLvl, b \in OvrSvcp, c \in OvrGvcp, d \in OvrNotify,
        e \in OvrSim, f \in OvrExtra}

CfgFiles ==
    {[mode |-> "absent", text |-> <<>>], [mode |-> "unreadable", text |-> <<>>],
     [mode |-> "readable", text |-> <<>>], [mode |-> "readable", text |-> <<JunkChunk>>],
     [mode |-> "readable", text |-> <<ArrayChunk>>]}
    \cup {[mode |-> "readable", text |-> <<ObjectChunk(p)>>] : p \in OverridePairs}

\* what _read_dict_from_file returns, as a configuration value
AsConfValue(d) == IF d.type = "dict" THEN MapVal(d.map) ELSE ListVal(<<>>)

\* variant: load_config with conf.update(override) and no state
LoadConfigShallow(dflt, cfg, withState, stateFile, clock) ==
    [err |-> "none",
     value |-> ShallowUpdate(dflt, AsConfValue(ReadDictFromFile(cfg)))]

\* load_config: the configuration returned, or the exception raised
LoadConfig(dflt, cfg, withState, stateFile, clock) ==
    LET merged == PyMerge(dflt, AsConfValue(ReadDictFromFile(cfg)))
        st     == LoadState(stateFile, clock)
    IN  IF ~withState THEN [err |-> "none", value |-> merged]
        ELSE IF st.err # "none" THEN [err |-> st.err, value |-> Unset]
        ELSE [err |-> "none", value |-> BaseSet(merged, "state", MapVal(st.value))]

ConfInit ==
    /\ defaults \in {DefaultConf, TestConf}
    /\ cfgFile \in CfgFiles
    /\ loadState \in BOOLEAN
    /\ conf = Unset
    /\ confErr = "none"

LoadConfigCall ==
    /\ conf = Unset
    /\ LET r == LoadConfig(defaults, cfgFile, loadState, file, now) IN
        /\ conf' = r.value
        /\ confErr' = r.err
    /\ UNCHANGED <<defaults, cfgFile, loadState>>
    /\ UNCHANGED <<supVars, stateVars>>

ConfNext == LoadConfigCall

-----------------------------------------------------------------------------
(***************************************************************************)
(*                           SPECIFICATIONS                                *)
(***************************************************************************)
\* a component that does not take part: nothing scheduled, nothing loaded
SupQuiet ==
    /\ futures = {}
    /\ tstate = [t \in Tasks |-> "pending"]
    /\ pc = "start"
    /\ supCancelled = FALSE
    /\ timedOut = FALSE
    /\ cancelReq = {}
    /\ done = {}
    /\ pending = {}
    /\ waitEnd = "none"
    /\ result = NoResult
    /\ endState = [t \in Tasks |-> "pending"]

StateQuiet ==
    /\ StateInit
    /\ file = [mode |-> "absent", text |-> <<>>]

\* the state file load_config(load_state=True) may find
StateAtLoad ==
    /\ StateInit
    /\ file \in {[mode |-> "absent", text |-> <<>>],
                 [mode |-> "readable",
                  text |-> <<ObjectChunk(<<<<"timestamp", IntVal(0)>>,
                                           <<"ver", IntVal(STATE_VER)>>,
                                           <<"last_set_brightness", IntVal(40)>>>>)>>]}

ConfQuiet ==
    /\ defaults = DefaultConf
    /\ cfgFile = [mode |-> "absent", text |-> <<>>]
    /\ loadState = FALSE
    /\ conf = Unset
    /\ confErr = "none"

InitSup   == SupInit /\ StateQuiet /\ ConfQuiet
InitState == StateInit /\ SupQuiet /\ ConfQuiet
InitConf  == ConfInit /\ StateAtLoad /\ SupQuiet

SpecSup   == InitSup /\ [][SupNext]_vars
SpecState == InitState /\ [][StateNext]_vars
SpecConf  == InitConf /\ [][ConfNext]_vars

-----------------------------------------------------------------------------
(***************************************************************************)
(*                        CLAIMS: TASK SUPERVISOR                          *)
(***************************************************************************)
SupDone == pc = "done"

\* C1 (fail-fast join): as soon as a task of the group has failed the wait
\* can return although other tasks are still pending; and when the wait has
\* returned with exactly one finished task, a failed one, and every other
\* task unfinished, the call raises that task's failure and every unfinished
\* task has been sent a cancellation request.
C1_FailFast ==
    /\ (pc = "waiting" /\ ~supCancelled /\ \E t \in futures : tstate[t] = "failed")
           => ENABLED WaitReturn
    /\ \A t \in futures :
           (SupDone /\ waitEnd = "returned" /\ done = {t} /\ endState[t] = "failed")
               => /\ result = TaskError(t)
                  /\ pending = futures \ {t}
                  /\ pending \subseteq cancelReq

C1_Witness ==
    /\ SupDone /\ waitEnd = "returned" /\ ~timedOut
    /\ \E t \in futures :
           /\ done = {t} /\ endState[t] = "failed" /\ result = TaskError(t)
    /\ Cardinality(pending) = 2
    /\ pending \subseteq cancelReq
    /\ \A u \in pending : tstate[u] = "pending"

\* C2 (supervisor cancelled): when the wait ended by the supervisor's own
\* cancellation, every task of the group, finished or not, has been sent a
\* cancellation request and the call raises CancelledError, never a task's
\* failure.
C2_CancelAll ==
    (SupDone /\ waitEnd = "cancelled")
        => /\ futures \subseteq cancelReq
           /\ result = CancelledErr

C2_Witness ==
    /\ SupDone /\ waitEnd = "cancelled"
    /\ \E t \in futures : endState[t] = "failed"
    /\ \E t \in futures : endState[t] = "ok"
    /\ \E t \in futures : endState[t] = "pending"
    /\ futures \subseteq cancelReq
    /\ result = CancelledErr

\* C3 as stated (never swallows): a call that returns normally has every
\* task of the group completed successfully.
C3_ReturnMeansAllSucceeded ==
    (SupDone /\ result = Returned) => \A t \in futures : endState[t] = "ok"

\* C3 as amended: the call returns normally only when every task of the
\* group has succeeded or was still pending at the 5 second cap and has been
\* sent a cancellation request; otherwise it raises the failure of a failed
\* task, a cancellation, or (empty group) a usage error.  It never returns
\* normally while a task of the group has failed or was cancelled.
C3_NeverSwallows ==
    SupDone =>
        \/ /\ result = Returned
           /\ futures # {}
           /\ \A t \in futures :
                 \/ endState[t] = "ok"
                 \/ endState[t] = "pending" /\ timedOut /\ t \in cancelReq
        \/ \E t \in futures : result = TaskError(t) /\ endState[t] = "failed"
        \/ /\ result = CancelledErr
           /\ \/ waitEnd = "cancelled"
              \/ \E t \in futures : endState[t] = "cancelled"
        \/ result = UnboundLocal /\ futures = {}

C3_Witness ==
    /\ SupDone /\ result = Returned /\ timedOut
    /\ \E t \in futures : endState[t] = "pending" /\ t \in cancelReq
    /\ \E t \in futures : endState[t] = "ok"

\* C4 (re-raises one of the failures): when the wait has returned and a
\* finished task has failed, the call raises the failure of a finished,
\* failed task, whatever the other finished tasks are.
C4_ReraisesAFailure ==
    (SupDone /\ waitEnd = "returned" /\ \E t \in done : endState[t] = "failed")
        => \E t \in done : endState[t] = "failed" /\ result = TaskError(t)

\* C5 (all-success): once every task of a non-empty group has succeeded the
\* wait can return without the cap; and when the wait has returned with
\* every task succeeded, the call returns normally and no task has been sent
\* a cancellation request.
C5_AllSuccess ==
    /\ (pc = "waiting" /\ ~supCancelled /\ \A t \in futures : tstate[t] = "ok")
           => ENABLED WaitReturn
    /\ (SupDone /\ waitEnd = "returned" /\ futures # {}
            /\ \A t \in futures : endState[t] = "ok")
           => /\ result = Returned
              /\ cancelReq = {}

C5_Witness ==
    /\ SupDone /\ waitEnd = "returned" /\ ~timedOut
    /\ Cardinality(futures) = 3
    /\ \A t \in futures : endState[t] = "ok"
    /\ result = Returned
    /\ cancelReq = {}

\* C6 (timeout is not a failure): when the wait has returned after the cap
\* elapsed and no task of the group has failed, exactly the pending tasks
\* have been sent a cancellation request, they are still pending when the
\* call ends, and the call returns normally.
C6_TimeoutReturns ==
    (SupDone /\ waitEnd = "returned" /\ timedOut
        /\ \A t \in futures : endState[t] # "failed")
        => /\ result = Returned
           /\ cancelReq = pending
           /\ \A t \in pending : endState[t] = "pending"

-----------------------------------------------------------------------------
(***************************************************************************)
(*                      CLAIMS: PERSISTED STATE STORE                      *)
(***************************************************************************)
\* the record the state file holds: absent, unreadable and unparseable
\* files hold none (the empty mapping)
HoldsObject(f) ==
    f.mode = "readable" /\ Len(f.text) = 1 /\ f.text[1].kind = "object"

OnDisk(f) == IF HoldsObject(f) THEN ParseObject(f.text[1].pairs) ELSE EmptyMap

\* a file that is absent, unreadable, unparseable, or a record whose
\* timestamp, if any, is an integer
IsRecordOrNothing(f) ==
    /\ ~(f.mode = "readable" /\ Len(f.text) = 1 /\ f.text[1].kind = "array")
    /\ Get(OnDisk(f), "timestamp", IntVal(0))[1] = "int"

\* C7 (state validity rule): _load_state returns the on-disk record verbatim
\* when now - timestamp <= 60 and ver = STATE_VER (missing timestamp: 0,
\* missing ver: -1), and the sentinel record in every other case.
C7_ValidityRule ==
    (fresh /\ IsRecordOrNothing(file)) =>
        LET rec == OnDisk(file)
            t   == Get(rec, "timestamp", IntVal(0))[2]
            v   == Get(rec, "ver", IntVal(-1))
        IN  /\ loadErr = "none"
            /\ ~state.isNone
            /\ (now - t <= 60 /\ v = IntVal(STATE_VER)) => state.map = rec
            /\ ~(now - t <= 60 /\ v = IntVal(STATE_VER))
                   => state.map = (("timestamp" :> IntVal(0)) @@ ("ver" :> IntVal(-1))
                                    @@ ("last_set_brightness" :> IntVal(-1)))

C7_Witness ==
    /\ fresh /\ loadErr = "none" /\ now = 60
    /\ HoldsObject(file)
    /\ OnDisk(file) = (("timestamp" :> IntVal(0)) @@ ("ver" :> IntVal(STATE_VER))
                        @@ ("last_set_brightness" :> IntVal(40)))
    /\ state.map = OnDisk(file)

\* C8 (loaders never fail on a bad file): whatever the state file holds,
\* _load_state returns without raising, and a file that holds no record
\* gives the sentinel record.
C8_LoadersNeverRaise ==
    fresh => /\ loadErr = "none"
             /\ ~HoldsObject(file) => state.map = EMPTY_STATE

-----------------------------------------------------------------------------
(***************************************************************************)
(*                      CLAIMS: LAYERED CONFIGURATION                      *)
(***************************************************************************)
MaxOf(a, b) == IF a >= b THEN a ELSE b

\* the reference deep merge: mappings merge by key, sequences by position,
\* anything else is replaced by the override
RECURSIVE RefMerge(_, _)
RefMerge(d, o) ==
    IF IsMap(d) /\ IsMap(o) THEN
        MapVal([k \in DOMAIN d[2] \cup DOMAIN o[2] |->
                   IF k \in DOMAIN d[2] /\ k \in DOMAIN o[2] THEN RefMerge(d[2][k], o[2][k])
                   ELSE IF k \in DOMAIN o[2] THEN o[2][k]
                   ELSE d[2][k]])
    ELSE IF IsList(d) /\ IsList(o) THEN
        ListVal([i \in 1..MaxOf(Len(d[2]), Len(o[2])) |->
                   IF i <= Len(d[2]) /\ i <= Len(o[2]) THEN RefMerge(d[2][i], o[2][i])
                   ELSE IF i <= Len(o[2]) THEN o[2][i]
                   ELSE d[2][i]])
    ELSE o

\* the override the config file gives: a bad file gives the empty override
Override == MapVal(OnDisk(cfgFile))

\* C10 (deep merge): the configuration load_config returns is the reference
\* deep merge of the defaults with the override (with load_state, but for
\* the key 'state', which holds what _load_state returned); every key of
\* the defaults is a key of the result; override ["x"] on default ["a","b"]
\* gives ["x","b"].
C10_DeepMerge ==
    (conf # Unset) =>
        LET expected == RefMerge(defaults, Override) IN
        /\ confErr = "none"
        /\ IsMap(conf)
        /\ ~loadState => conf = expected
        /\ loadState =>
              /\ DOMAIN conf[2] = DOMAIN expected[2]
              /\ \A k \in DOMAIN conf[2] \ {"state"} : conf[2][k] = expected[2][k]
              /\ IsMap(conf[2]["state"])
        /\ DOMAIN defaults[2] \subseteq DOMAIN conf[2]
        /\ \A k \in DOMAIN defaults[2] \cap DOMAIN Override[2] :
              (defaults[2][k][1] = "leaf" /\ Override[2][k][1] = "leaf")
                  => conf[2][k] = Override[2][k]
        /\ (/\ Get(defaults[2], "ddcutil_svcp_flags", NoneVal)
                   = ListVal(<<Leaf("a"), Leaf("b")>>)
            /\ Get(Override[2], "ddcutil_svcp_flags", NoneVal) = ListVal(<<Leaf("x")>>))
              => conf[2]["ddcutil_svcp_flags"] = ListVal(<<Leaf("x"), Leaf("b")>>)

C10_Witness ==
    /\ conf # Unset
    /\ defaults = TestConf
    /\ Get(Override[2], "ddcutil_svcp_flags", NoneVal) = ListVal(<<Leaf("x")>>)
    /\ conf[2]["ddcutil_svcp_flags"] = ListVal(<<Leaf("x"), Leaf("b")>>)
    /\ "notify" \in DOMAIN Override[2]
    /\ "unknown_key" \in DOMAIN conf[2]

=============================================================================
